---- MODULE Spec2Model ----
(***************************************************************************)
(* A model of src/model.py: the SEIR simulation run_SEIR, its derivative   *)
(* function model(), the integration solve(), the delay transform it       *)
(* imports from the module `shared`, and the death-estimation loop.        *)
(*                                                                         *)
(* Numbers.  Python floats are modelled in fixed point: a float value v is *)
(* the integer v * Scale (one unit is 1/Scale of a person), rounded after  *)
(* every operation as a float operation is.  The literal parameters of the *)
(* source (2.5, 5.2, 4.6, 3.0, 1.1, 0.01, ...) are exact rationals         *)
(* <<numerator, denominator>> in lowest terms.  numpy's NaN is the value   *)
(* NaN, which every arithmetic operation propagates and every comparison   *)
(* finds false.                                                            *)
(*                                                                         *)
(* scipy.integrate.odeint is a library: it is modelled as the explicit     *)
(* Euler method with a step of one day, which calls model() once per day   *)
(* index, at the time of that index.                                       *)
(***************************************************************************)
EXTENDS Integers, Sequences, FiniteSets

VARIABLES
    pc,                       \* position of the run inside run_SEIR
    population,               \* argument of run_SEIR
    intensive_units,          \* argument of run_SEIR
    date_of_first_infection,  \* argument of run_SEIR (a day ordinal)
    date_of_lockdown,         \* argument of run_SEIR (a day ordinal)
    X, S, E, I, R,            \* the arrays solve() returns
    betaLog,                  \* the beta model() used at each call, in call order
    F, U,                     \* found cases and ICU demand, after their delays
    D,                        \* the integer array of the death-estimation loop
    i, RPrev, DPrev,          \* the loop's index and carried values
    ifrLog,                   \* the IFR the loop used at each index
    deaths,                   \* D after its delay: the 'deaths' column
    output,                   \* line_plot_data: the records run_SEIR returns
    series, shiftA, shiftB,   \* the delay transform's inputs (delay specification)
    once, twice, direct, dpc  \* its results and position (delay specification)

runVars == <<pc, population, intensive_units, date_of_first_infection,
             date_of_lockdown, X, S, E, I, R, betaLog, F, U, D, i, RPrev,
             DPrev, ifrLog, deaths, output>>
delayVars == <<series, shiftA, shiftB, once, twice, direct, dpc>>
vars == <<runVars, delayVars>>

----------------------------------------------------------------------------
(* Bounds of the model. *)

\* Fixed-point resolution: one person is Scale units.
Scale == 100
\* Days modelled by a run (daysTotal is 365 in the source, line 51).
DaysTotal == 23
\* Length of the series the death loop is applied to on its own.
MaxLen == 4
\* Length of the pattern the delay transform's input series repeat.
PatLen == 3

----------------------------------------------------------------------------
(* Floats. *)

NaN == -(2^30)

IsNaN(x) == x = NaN

Abs(x) == IF x < 0 THEN -x ELSE x

RECURSIVE GCD(_, _)
GCD(a, b) == IF b = 0 THEN a ELSE GCD(b, a % b)

\* A rational in lowest terms with a positive denominator.
Norm(q) ==
    LET g == GCD(Abs(q[1]), Abs(q[2]))
        s == IF q[2] < 0 THEN -1 ELSE 1
    IN  <<(s * q[1]) \div g, (s * q[2]) \div g>>

FromInt(n) == <<n, 1>>
RAdd(p, q) == Norm(<<p[1] * q[2] + q[1] * p[2], p[2] * q[2]>>)
RSub(p, q) == Norm(<<p[1] * q[2] - q[1] * p[2], p[2] * q[2]>>)
RMul(p, q) == Norm(<<p[1] * q[1], p[2] * q[2]>>)
RDiv(p, q) == Norm(<<p[1] * q[2], p[2] * q[1]>>)

\* Python's round(): to the nearest integer, a tie to the even one.
PyRound(q) ==
    LET n == q[1]
        d == q[2]
        lo == n \div d
        r == n % d
    IN  IF 2 * r < d THEN lo
        ELSE IF 2 * r > d THEN lo + 1
        ELSE IF lo % 2 = 0 THEN lo ELSE lo + 1

\* Fixed-point float operations; NaN propagates.
FAdd(a, b) == IF IsNaN(a) \/ IsNaN(b) THEN NaN ELSE a + b
FSub(a, b) == IF IsNaN(a) \/ IsNaN(b) THEN NaN ELSE a - b
FNeg(a) == IF IsNaN(a) THEN NaN ELSE -a
\* float * float
FMul(a, b) == IF IsNaN(a) \/ IsNaN(b) THEN NaN ELSE (a * b) \div Scale
\* literal * float
FScale(q, a) == IF IsNaN(a) THEN NaN ELSE (q[1] * a) \div q[2]
\* float / int.  numpy: 0.0 / 0 and nan / 0 are nan (a RuntimeWarning, no
\* exception); x / 0 for another x is an infinity, which no run reaches:
\* with N = 0 the dividend is 0 on day 0 and NaN from then on.
FDivInt(a, n) == IF IsNaN(a) \/ n = 0 THEN NaN ELSE a \div n
\* float <= int: False when the float is NaN.
FLeqInt(a, n) == ~IsNaN(a) /\ a <= n * Scale

\* numpy stores a float into an integer array by truncating toward zero.
\* The float is num / den.
IntCast_round(num, den) == PyRound(<<num, den>>)
IntCast(num, den) == IF num >= 0 THEN num \div den ELSE -((-num) \div den)

----------------------------------------------------------------------------
(* run_SEIR's parameters, lines 51-96. *)

E0 == 1
r0 == <<30, 10>>
r1 == <<11, 10>>
days_presymptomatic == <<25, 10>>
days_to_incubation == <<52, 10>>
sigma == RDiv(FromInt(1), RSub(days_to_incubation, days_presymptomatic))
generation_time == <<46, 10>>
gamma ==
    RDiv(FromInt(1),
         RMul(FromInt(2), RSub(generation_time, RDiv(FromInt(1), sigma))))
percent_asymptomatic == <<35, 100>>
percent_cases_detected ==
    RDiv(RSub(FromInt(1), percent_asymptomatic), FromInt(20))
timeInHospital == 12
timeInfected == RDiv(FromInt(1), gamma)
communicationLag == 2
testLag == 3
symptomToHospitalLag == 5
hospitalToIcuLag == 5
infectionFatalityRateA == <<1, 100>>
infectionFatalityRateB == RMul(infectionFatalityRateA, FromInt(3))
icuRate == RMul(infectionFatalityRateA, FromInt(2))
beta0 == RMul(r0, gamma)
beta1 == RMul(r1, gamma)

days_before_lockdown == date_of_lockdown - date_of_first_infection

\* The shifts of the four delay calls.
FoundLag ==
    RAdd(days_presymptomatic,
         FromInt(symptomToHospitalLag + testLag + communicationLag))
IcuLag ==
    RAdd(days_presymptomatic, FromInt(symptomToHospitalLag + hospitalToIcuLag))
ScalingLag ==
    FromInt(PyRound(RMul(RSub(RDiv(FromInt(timeInHospital), timeInfected),
                              FromInt(1)),
                         timeInfected)))
DeathLag ==
    RAdd(RSub(days_presymptomatic, timeInfected),
         FromInt(symptomToHospitalLag + timeInHospital + communicationLag))

----------------------------------------------------------------------------
(* model(), lines 15-30. *)

\* Line 24: the transmission coefficient at time x.
beta_inclusive(x, b0, days0, b1) == IF x <= days0 THEN b0 ELSE b1
beta(x, b0, days0, b1) == IF x < days0 THEN b0 ELSE b1

\* The derivative <<dS, dE, dI, dR>> of the state Y at time x.
model(Y, x, N, b0, days0, b1, g, sg) ==
    LET b == beta(x, b0, days0, b1)
        infection == FDivInt(FMul(FScale(b, Y[1]), Y[3]), N)
        dS == FNeg(infection)
        dE == FSub(infection, FScale(sg, Y[2]))
        dI == FSub(FScale(sg, Y[2]), FScale(g, Y[3]))
        dR == FScale(g, Y[3])
    IN  <<dS, dE, dI, dR>>

(* solve(), lines 33-40. *)

\* Line 34: np.arange(daysTotal).
Arange(n) == [j \in 1..n |-> j - 1]

\* Line 35: S, E, I, R at the initial step.
N0(pop, e0) == <<(pop - e0) * Scale, e0 * Scale, 0 * Scale, 0 * Scale>>

\* One step of the integration from day x to day x + 1.
Advance(Y, x, N, b0, days0, b1, g, sg) ==
    LET dY == model(Y, x, N, b0, days0, b1, g, sg)
    IN  [k \in 1..4 |-> FAdd(Y[k], dY[k])]

----------------------------------------------------------------------------
(* shared.delay: the module `shared` is imported at line 10 and is not     *)
(* among the sources; the transform is modelled from its contract:         *)
(* series'[t] = series[t - shift] for t - shift >= 0, else 0; a fractional *)
(* shift interpolates linearly between the two samples around t - shift;   *)
(* the length is kept.  Indices t are 0-based, sequences 1-based.          *)

At(s, k) == IF k >= 0 /\ k < Len(s) THEN s[k + 1] ELSE 0

Interp(a, b, f, d) ==
    IF IsNaN(a) \/ IsNaN(b) THEN NaN ELSE ((d - f) * a + f * b) \div d

\* A transform that rotates instead of padding with zeros.
delay_roll(s, shift) ==
    [j \in 1..Len(s) |-> s[(((j - 1) - PyRound(shift)) % Len(s)) + 1]]
delay(s, shift) ==
    [j \in 1..Len(s) |->
        LET pos == (j - 1) * shift[2] - shift[1]
            k == pos \div shift[2]
            f == pos % shift[2]
        IN  IF pos < 0 THEN 0
            ELSE IF f = 0 THEN At(s, k)
            ELSE Interp(At(s, k), At(s, k + 1), f, shift[2])]

----------------------------------------------------------------------------
(* run_SEIR's derived arrays, lines 105-114. *)

\* Line 105 and lines 110-111.
DelayedF(infectious) ==
    delay([j \in 1..Len(infectious) |->
              FScale(percent_cases_detected, infectious[j])],
          FoundLag)

\* Line 106: I * icuRate * timeInHospital / timeInfected.
RawU(infectious) ==
    [j \in 1..Len(infectious) |->
        FScale(RDiv(FromInt(1), timeInfected),
               FScale(FromInt(timeInHospital), FScale(icuRate, infectious[j])))]

\* Lines 112-114: the two delays of the ICU demand.
DelayedU_once(raw) == delay(raw, IcuLag)
DelayedU(raw) == delay(delay(raw, IcuLag), ScalingLag)

(* The death-estimation loop, lines 120-127. *)

\* Line 124.
IFR_strict(u, units) ==
    IF ~IsNaN(u) /\ u < units * Scale
    THEN infectionFatalityRateA ELSE infectionFatalityRateB
IFR(u, units) ==
    IF FLeqInt(u, units) THEN infectionFatalityRateA ELSE infectionFatalityRateB

\* Line 125, the right-hand side DPrev + IFR * (R[i] - RPrev) as the
\* fraction <<numerator, denominator>> of a person (R[i], RPrev not NaN).
Estimate_from_zero(dprev, ifr, r, rprev) ==
    <<ifr[1] * (r - rprev), ifr[2] * Scale>>
Estimate(dprev, ifr, r, rprev) ==
    <<dprev * ifr[2] * Scale + ifr[1] * (r - rprev), ifr[2] * Scale>>

(* The output table, lines 132-149. *)

Observables == <<"susceptible", "exposed", "infectious", "recovered", "deaths">>

\* Line 141: the date of day x.
DateOf(first, x) == first + x

\* Line 142: round(x) for a float cell.
RoundCell_trunc(v) == IntCast(v, Scale)
RoundCell(v) == PyRound(<<v, Scale>>)

\* Lines 144-147: melt, one row per value column and day, column by column.
Melt(first, days, cols) ==
    [k \in 1..(Len(Observables) * Len(days)) |->
        LET c == ((k - 1) \div Len(days)) + 1
            j == ((k - 1) % Len(days)) + 1
        IN  [date |-> DateOf(first, days[j]),
             type |-> Observables[c],
             count |-> RoundCell(cols[c][j])]]

HasNaN(s) == \E j \in 1..Len(s) : IsNaN(s[j])

----------------------------------------------------------------------------
(* The inputs the model draws. *)

Populations == {-400, 0, 50, 400}
IntensiveUnits == {-1, 0, 1, 3}
FirstInfectionDates == {100, 101}
LockdownDates == {98, 100, 103, 140}

\* Values of the Recovered series, of the ICU demand and of the capacity the
\* death loop is applied to on its own.
RValues == {0, 5 * Scale, 12 * Scale, 20 * Scale, 45 * Scale}
UValues == {3 * Scale, 4 * Scale}
Capacities == {3, 4}

\* Input series of the delay transform: every pattern over DelayValues,
\* repeated to the length of a run, and the series of the shift example.
DelayValues == {0, 10, 25}
ExampleSeries == <<0, 0, 0, 10, 20, 30>>
Periodic(p, n) == [j \in 1..n |-> p[((j - 1) % Len(p)) + 1]]
DelaySeries ==
    {Periodic(p, DaysTotal) : p \in [1..PatLen -> DelayValues]}
        \cup {ExampleSeries}
DelayShifts ==
    {FromInt(0), <<1, 2>>, FromInt(1), FromInt(2), IcuLag, ScalingLag}

IdleRun ==
    /\ pc = "idle"
    /\ population = 1
    /\ intensive_units = 1
    /\ date_of_first_infection = 0
    /\ date_of_lockdown = 0
    /\ X = <<>> /\ S = <<>> /\ E = <<>> /\ I = <<>> /\ R = <<>>
    /\ betaLog = <<>>
    /\ F = <<>> /\ U = <<>> /\ D = <<>>
    /\ i = 0 /\ RPrev = 0 /\ DPrev = 0
    /\ ifrLog = <<>>
    /\ deaths = <<>>
    /\ output = <<>>

IdleDelay ==
    /\ dpc = "idle"
    /\ series = <<>>
    /\ shiftA = FromInt(0) /\ shiftB = FromInt(0)
    /\ once = <<>> /\ twice = <<>> /\ direct = <<>>

----------------------------------------------------------------------------
(* run_SEIR, lines 43-149. *)

\* The call: the arguments are bound, nothing has run.
Init ==
    /\ pc = "start"
    /\ population \in Populations
    /\ intensive_units \in IntensiveUnits
    /\ date_of_first_infection \in FirstInfectionDates
    /\ date_of_lockdown \in LockdownDates
    /\ X = <<>> /\ S = <<>> /\ E = <<>> /\ I = <<>> /\ R = <<>>
    /\ betaLog = <<>>
    /\ F = <<>> /\ U = <<>> /\ D = <<>>
    /\ i = 0 /\ RPrev = 0 /\ DPrev = 0
    /\ ifrLog = <<>>
    /\ deaths = <<>>
    /\ output = <<>>
    /\ IdleDelay

\* Lines 44-102 and 34-35: the parameters are derived and solve() is
\* entered with the initial state; no argument is examined.
CallSolve ==
    /\ pc = "start"
    /\ pc' = "solve"
    /\ X' = Arange(DaysTotal)
    /\ S' = <<N0(population, E0)[1]>>
    /\ E' = <<N0(population, E0)[2]>>
    /\ I' = <<N0(population, E0)[3]>>
    /\ R' = <<N0(population, E0)[4]>>
    /\ UNCHANGED <<population, intensive_units, date_of_first_infection,
                   date_of_lockdown, betaLog, F, U, D, i, RPrev, DPrev,
                   ifrLog, deaths, output>>
    /\ UNCHANGED delayVars

\* Line 37: the integration advances by one day, calling model() at the
\* time of the last day reached.
Integrate ==
    /\ pc = "solve"
    /\ Len(S) < Len(X)
    /\ LET x == X[Len(S)]
           Y == <<S[Len(S)], E[Len(S)], I[Len(S)], R[Len(S)]>>
           Y1 == Advance(Y, x, population, beta0, days_before_lockdown,
                         beta1, gamma, sigma)
       IN  /\ S' = Append(S, Y1[1])
           /\ E' = Append(E, Y1[2])
           /\ I' = Append(I, Y1[3])
           /\ R' = Append(R, Y1[4])
           /\ betaLog' =
                  Append(betaLog, beta(x, beta0, days_before_lockdown, beta1))
    /\ UNCHANGED <<pc, population, intensive_units, date_of_first_infection,
                   date_of_lockdown, X, F, U, D, i, RPrev, DPrev, ifrLog,
                   deaths, output>>
    /\ UNCHANGED delayVars

\* Lines 39-40 and 105-122: solve() returns, the derived arrays are built
\* and delayed, and the death loop is set up.
Derive ==
    /\ pc = "solve"
    /\ Len(S) = Len(X)
    /\ pc' = "deaths"
    /\ F' = DelayedF(I)
    /\ U' = DelayedU(RawU(I))
    /\ D' = Arange(DaysTotal)
    /\ i' = 0
    /\ RPrev' = 0
    /\ DPrev' = 0
    /\ UNCHANGED <<population, intensive_units, date_of_first_infection,
                   date_of_lockdown, X, S, E, I, R, betaLog, ifrLog, deaths,
                   output>>
    /\ UNCHANGED delayVars

\* Lines 123-127: one iteration of the death loop.  Storing NaN into the
\* integer array raises ValueError.
DeathStep ==
    /\ pc = "deaths"
    /\ i < Len(X)
    /\ LET ifr == IFR(U[i + 1], intensive_units)
       IN  IF IsNaN(R[i + 1]) \/ IsNaN(RPrev)
           THEN /\ pc' = "error"
                /\ UNCHANGED <<D, i, RPrev, DPrev, ifrLog>>
           ELSE LET est == Estimate(DPrev, ifr, R[i + 1], RPrev)
                    stored == IntCast(est[1], est[2])
                IN  /\ D' = [D EXCEPT ![i + 1] = stored]
                    /\ RPrev' = R[i + 1]
                    /\ DPrev' = stored
                    /\ i' = i + 1
                    /\ ifrLog' = Append(ifrLog, ifr)
                    /\ pc' = pc
    /\ UNCHANGED <<population, intensive_units, date_of_first_infection,
                   date_of_lockdown, X, S, E, I, R, betaLog, F, U, deaths,
                   output>>
    /\ UNCHANGED delayVars

\* Lines 129-149: D is delayed, the table is built, its float cells are
\* rounded (round(NaN) raises ValueError) and it is melted and returned.
Assemble ==
    /\ pc = "deaths"
    /\ i = Len(X)
    /\ LET delayed == delay([j \in 1..Len(D) |-> D[j] * Scale], DeathLag)
       IN  /\ deaths' = delayed
           /\ IF HasNaN(S) \/ HasNaN(E) \/ HasNaN(I) \/ HasNaN(R)
              THEN /\ pc' = "error"
                   /\ output' = output
              ELSE /\ pc' = "done"
                   /\ output' = Melt(date_of_first_infection, X,
                                     <<S, E, I, R, delayed>>)
    /\ UNCHANGED <<population, intensive_units, date_of_first_infection,
                   date_of_lockdown, X, S, E, I, R, betaLog, F, U, D, i,
                   RPrev, DPrev, ifrLog>>
    /\ UNCHANGED delayVars

Next == CallSolve \/ Integrate \/ Derive \/ DeathStep \/ Assemble

Spec == Init /\ [][Next]_vars

----------------------------------------------------------------------------
(* The death loop on its own: lines 120-127 applied to any Recovered       *)
(* series, ICU demand and capacity.                                        *)

InitDeath ==
    /\ pc = "deaths"
    /\ population = 1
    /\ intensive_units \in Capacities
    /\ date_of_first_infection = 0
    /\ date_of_lockdown = 0
    /\ X = Arange(MaxLen)
    /\ S = <<>> /\ E = <<>> /\ I = <<>>
    /\ R \in [1..MaxLen -> RValues]
    /\ betaLog = <<>>
    /\ F = <<>>
    /\ U \in [1..MaxLen -> UValues]
    /\ D = Arange(MaxLen)
    /\ i = 0 /\ RPrev = 0 /\ DPrev = 0
    /\ ifrLog = <<>>
    /\ deaths = <<>>
    /\ output = <<>>
    /\ IdleDelay

NextDeath == DeathStep

SpecDeath == InitDeath /\ [][NextDeath]_vars

----------------------------------------------------------------------------
(* The delay transform on its own: one delay by shiftA, a second by        *)
(* shiftB, and a single delay by their sum.                                *)

InitDelay ==
    /\ IdleRun
    /\ dpc = "start"
    /\ series \in DelaySeries
    /\ shiftA \in DelayShifts
    /\ shiftB \in DelayShifts
    /\ once = <<>> /\ twice = <<>> /\ direct = <<>>

DelayFirst ==
    /\ dpc = "start"
    /\ dpc' = "first"
    /\ once' = delay(series, shiftA)
    /\ UNCHANGED <<series, shiftA, shiftB, twice, direct>>
    /\ UNCHANGED runVars

DelaySecond ==
    /\ dpc = "first"
    /\ dpc' = "second"
    /\ twice' = delay(once, shiftB)
    /\ UNCHANGED <<series, shiftA, shiftB, once, direct>>
    /\ UNCHANGED runVars

DelaySum ==
    /\ dpc = "second"
    /\ dpc' = "done"
    /\ direct' = delay(series, RAdd(shiftA, shiftB))
    /\ UNCHANGED <<series, shiftA, shiftB, once, twice>>
    /\ UNCHANGED runVars

NextDelay == DelayFirst \/ DelaySecond \/ DelaySum

SpecDelay == InitDelay /\ [][NextDelay]_vars

----------------------------------------------------------------------------
(* Properties. *)

PrevOf(s, j) == IF j = 1 THEN 0 ELSE s[j - 1]

NonDecreasing(s) == \A j \in 2..Len(s) : s[j - 1] <= s[j]

Sum4(Y) == FAdd(FAdd(Y[1], Y[2]), FAdd(Y[3], Y[4]))

StateAt(j) == <<S[j], E[j], I[j], R[j]>>

\* C1: conservation.  At every day index solve() has produced, the four
\* components of the derivative model() returns there sum to zero, and
\* S + E + I + R equals the population.
Conservation ==
    \A j \in 1..Len(S) :
        /\ Sum4(model(StateAt(j), X[j], population, beta0,
                      days_before_lockdown, beta1, gamma, sigma)) = 0
        /\ Sum4(StateAt(j)) = population * Scale

\* The same, for every population but 0 (where model() divides by N = 0).
ConservationNonZeroPopulation == population # 0 => Conservation

\* C2: the death loop stores at every index the unrounded value
\* DPrev + IFR * (R[t] - RPrev); for R = [0, 5, 12, 20] under capacity it
\* yields D = [0, 0.05, 0.12, 0.20].
DeathsStoredUnrounded ==
    /\ \A j \in 1..Len(ifrLog) :
           D[j] * ifrLog[j][2] * Scale =
               PrevOf(D, j) * ifrLog[j][2] * Scale
                   + ifrLog[j][1] * (R[j] - PrevOf(R, j))
    /\ ( /\ R = <<0, 5 * Scale, 12 * Scale, 20 * Scale>>
         /\ Len(ifrLog) = Len(R)
         /\ \A j \in 1..Len(R) : U[j] <= intensive_units * Scale )
       => \A j \in 1..Len(R) : 100 * Scale * D[j] = R[j]

\* C3: for a non-decreasing Recovered series that starts at or above 0, the
\* deaths the loop has stored are non-decreasing and start at or above 0,
\* whatever the ICU demand and the capacity.
DeathsNonDecreasing ==
    (NonDecreasing(R) /\ Len(R) > 0 /\ R[1] >= 0)
        => \A j \in 1..Len(ifrLog) : D[j] >= PrevOf(D, j)

DeathsNonDecreasingWitness ==
    /\ pc = "deaths"
    /\ i = Len(X)
    /\ NonDecreasing(R) /\ R[1] >= 0
    /\ D[1] = 0
    /\ D[Len(D)] > 0

\* C4: the coefficient model() uses at time t is beta0 exactly when t is
\* before the switch day (lockdown date - first-infection date) and beta1
\* from the switch day on; with the lockdown on or before the first
\* infection it is beta1 at every time.
BetaSwitch ==
    /\ beta0 # beta1
    /\ \A j \in 1..Len(betaLog) :
           /\ X[j] < date_of_lockdown - date_of_first_infection
                  => betaLog[j] = beta0
           /\ X[j] >= date_of_lockdown - date_of_first_infection
                  => betaLog[j] = beta1
    /\ date_of_lockdown <= date_of_first_infection
           => \A j \in 1..Len(betaLog) : betaLog[j] = beta1

BetaSwitchWitness ==
    /\ date_of_lockdown - date_of_first_infection = 3
    /\ Len(betaLog) >= 4
    /\ betaLog[3] = beta0
    /\ betaLog[4] = beta1

\* C5: a run whose population or ICU capacity is not positive ends in a
\* configuration error before solve() is entered, and produces no output.
InvalidInputFailsFast ==
    (population <= 0 \/ intensive_units <= 0)
        => /\ pc \in {"start", "ConfigurationError"}
           /\ S = <<>>
           /\ output = <<>>

\* C6: the delay transform keeps the length and, for a whole shift k >= 0,
\* gives series'[t] = series[t - k] when t - k >= 0 and 0 otherwise;
\* delay([0,0,0,10,20,30], 2) = [0,0,0,0,0,10].
DelayContract ==
    dpc # "start" =>
        /\ Len(once) = Len(series)
        /\ shiftA[2] = 1 =>
               \A t \in 0..(Len(series) - 1) :
                   once[t + 1] =
                       IF t - shiftA[1] >= 0
                       THEN series[t - shiftA[1] + 1] ELSE 0
        /\ (series = <<0, 0, 0, 10, 20, 30>> /\ shiftA = FromInt(2))
               => once = <<0, 0, 0, 0, 0, 10>>

DelayContractWitness ==
    /\ dpc = "first"
    /\ series = <<0, 0, 0, 10, 20, 30>>
    /\ shiftA = FromInt(2)
    /\ once = <<0, 0, 0, 0, 0, 10>>

Column(name) ==
    CASE name = "susceptible" -> S
      [] name = "exposed" -> E
      [] name = "infectious" -> I
      [] name = "recovered" -> R
      [] name = "deaths" -> deaths

OutputRecords ==
    pc = "done" =>
        /\ Len(output) = 5 * DaysTotal
        /\ \A d \in 0..(DaysTotal - 1) :
               \A name \in {"susceptible", "exposed", "infectious",
                            "recovered", "deaths"} :
                   LET rows == {k \in 1..Len(output) :
                                   /\ output[k].date
                                          = date_of_first_infection + d
                                   /\ output[k].type = name}
                   IN  /\ Cardinality(rows) = 1
                       /\ \A k \in rows :
                              2 * Abs(output[k].count * Scale
                                          - Column(name)[d + 1]) <= Scale

OutputRecordsWitness ==
    /\ pc = "done"
    /\ population > 0
    /\ \E k \in 1..Len(output) :
           /\ output[k].type = "infectious"
           /\ output[k].date = date_of_first_infection + DaysTotal - 1
           /\ output[k].count > 10
           /\ I[DaysTotal] # output[k].count * Scale

\* C9: at every index of the death loop the rate used is the low one
\* exactly when the ICU demand of that index is at or below the capacity,
\* and the high one otherwise, whatever happened at earlier indices.
FatalityRateByCapacity ==
    /\ infectionFatalityRateA # infectionFatalityRateB
    /\ \A j \in 1..Len(ifrLog) :
           /\ U[j] <= intensive_units * Scale
                  => ifrLog[j] = infectionFatalityRateA
           /\ U[j] > intensive_units * Scale
                  => ifrLog[j] = infectionFatalityRateB

FatalityRateByCapacityWitness ==
    /\ Len(ifrLog) >= 2
    /\ U[1] > intensive_units * Scale
    /\ U[2] = intensive_units * Scale
    /\ ifrLog[1] = infectionFatalityRateB
    /\ ifrLog[2] = infectionFatalityRateA

\* C10: D is an integer array, so each stored value is truncated and the
\* truncated value is carried forward: for a non-decreasing Recovered
\* series, D[i] = D[i-1] + floor(IFR[i] * (R[i] - R[i-1])), and D keeps its
\* previous value on every day whose own increment is below 1.
DayIncrement(j) == <<ifrLog[j][1] * (R[j] - PrevOf(R, j)), ifrLog[j][2] * Scale>>

DeathsTruncatedPerDay ==
    /\ i > 0 => DPrev = D[i]
    /\ (NonDecreasing(R) /\ Len(R) > 0 /\ R[1] >= 0)
           => \A j \in 1..Len(ifrLog) :
                  /\ D[j] = PrevOf(D, j)
                                + (DayIncrement(j)[1] \div DayIncrement(j)[2])
                  /\ DayIncrement(j)[1] < DayIncrement(j)[2]
                         => D[j] = PrevOf(D, j)

\* Increments of 0.6 and 0.75 add up to more than one death; none is stored.
DeathsTruncatedPerDayWitness ==
    /\ pc = "deaths"
    /\ Len(ifrLog) >= 2
    /\ R[1] = 20 * Scale /\ R[2] = 45 * Scale
    /\ ifrLog[1] = infectionFatalityRateB
    /\ ifrLog[2] = infectionFatalityRateB
    /\ D[1] = 0 /\ D[2] = 0

====
